---- MODULE Spec2Model ----
(***************************************************************************)
(* lambdalabs-bot: a control loop that polls the provider's instance-types *)
(* endpoint and launches one instance when capacity shows up, in its two   *)
(* variants (with and without the /health endpoint).                       *)
(***************************************************************************)
EXTENDS Integers, Sequences, FiniteSets, TLC

\* ------------------------------------------------------------------------
\* Bounds of the model
\* ------------------------------------------------------------------------
\* number of fetch calls (loop iterations) explored
MaxFetch == 2
\* longest regions_with_capacity_available array the provider returns
MaxRegions == 2

\* ------------------------------------------------------------------------
\* Configuration, fixed by init()
\* ------------------------------------------------------------------------
instanceTypeName == "gpu_1x_a6000"
otherTypeName == "gpu_8x_a100"
sshKeyName == "my-ssh-key"
checkInterval == 30
errorWait == 10

\* ------------------------------------------------------------------------
\* JSON values.  An object is a function from its keys; a missing key is a
\* key outside the DOMAIN.
\* ------------------------------------------------------------------------
EmptyObject == [k \in {} |-> k]
\* Go's nil interface{} value, which is also what JSON null decodes to
Nil == [null |-> TRUE]
\* Go's nil error
NoErr == "<nil>"

SeqsUpTo(S, n) == UNION {[1..k -> S] : k \in 0..n}

RegionObjects == {EmptyObject, [name |-> "us-east-1"], [name |-> "us-west-2"]}
RegionArrays == SeqsUpTo(RegionObjects, MaxRegions)
TypeObjects ==
  {EmptyObject} \cup {[regions_with_capacity_available |-> a] : a \in RegionArrays}
OtherTypeObjects ==
  {[regions_with_capacity_available |-> <<[name |-> "us-west-2"]>>]}
DataObjects ==
  UNION {[S -> TypeObjects \cup OtherTypeObjects] : S \in SUBSET {instanceTypeName, otherTypeName}}
CatalogObjects ==
  {d \in DataObjects :
     /\ instanceTypeName \in DOMAIN d => d[instanceTypeName] \in TypeObjects
     /\ otherTypeName \in DOMAIN d => d[otherTypeName] \in OtherTypeObjects}
ErrorBody == [error |-> [code |-> "global/invalid-api-key", message |-> "API key was invalid"]]
LaunchOkBody == [data |-> [instance_ids |-> <<"0920582c7ff041399e34823a0be62549">>]]
LaunchErrBody == [error |-> [code |-> "instance-operations/launch/insufficient-capacity", message |-> "Not enough capacity"]]

\* HTTP responses of the provider.  transport = FALSE: client.Do failed;
\* status is resp.Status, which the program never looks at.
\* parses = FALSE: the body is not JSON (an HTML error page, an empty body).
StatusOK == "200 OK"
StatusUnauthorized == "401 Unauthorized"
StatusBadRequest == "400 Bad Request"
TransportFailure == [transport |-> FALSE, status |-> "", parses |-> FALSE, body |-> EmptyObject]
NoResponse == [transport |-> FALSE, status |-> "none", parses |-> FALSE, body |-> EmptyObject]
HttpResponses(okBodies, errStatus, errBodies) ==
  {TransportFailure}
    \cup [transport : {TRUE}, status : {StatusOK, errStatus}, parses : {FALSE}, body : {EmptyObject}]
    \cup [transport : {TRUE}, status : {StatusOK}, parses : {TRUE}, body : okBodies]
    \cup [transport : {TRUE}, status : {errStatus}, parses : {TRUE}, body : errBodies]
FetchResponses ==
  HttpResponses({[data |-> d] : d \in CatalogObjects}, StatusUnauthorized, {ErrorBody})
LaunchResponses ==
  HttpResponses({LaunchOkBody, Nil}, StatusBadRequest, {LaunchErrBody})

\* ------------------------------------------------------------------------
\* Go values
\* ------------------------------------------------------------------------
\* Region decoded from a JSON object: a missing "name" leaves the zero value
DecodeRegion(o) == [Name |-> IF "name" \in DOMAIN o THEN o.name ELSE ""]
\* InstanceTypeData decoded from a JSON object
DecodeInstanceTypeData(o) ==
  [RegionsWithCapacityAvailable |->
     IF "regions_with_capacity_available" \in DOMAIN o
       THEN [i \in DOMAIN o.regions_with_capacity_available |->
               DecodeRegion(o.regions_with_capacity_available[i])]
       ELSE <<>>]
\* InstanceTypes decoded from a JSON object: unknown keys are ignored, a
\* missing "data" leaves the map nil (no keys)
DecodeInstanceTypes(o) ==
  [Data |-> IF "data" \in DOMAIN o
              THEN [t \in DOMAIN o.data |-> DecodeInstanceTypeData(o.data[t])]
              ELSE EmptyObject]
ZeroInstanceTypes == [Data |-> EmptyObject]

ErrTransportGet == "Get \"https://cloud.lambdalabs.com/api/v1/instance-types\": dial tcp: connection refused"
ErrTransportPost == "Post \"https://cloud.lambdalabs.com/api/v1/instance-operations/launch\": dial tcp: connection refused"
ErrDecode == "invalid character '<' looking for beginning of value"

\* getInstanceTypes, given the provider's response: (InstanceTypes, error)
getInstanceTypes(resp) ==
  IF ~resp.transport THEN [val |-> ZeroInstanceTypes, err |-> ErrTransportGet]
  ELSE IF ~resp.parses THEN [val |-> ZeroInstanceTypes, err |-> ErrDecode]
  ELSE [val |-> DecodeInstanceTypes(resp.body), err |-> NoErr]

\* checkInstanceAvailability looking at every instance type of the catalog
\* instead of the configured one
checkInstanceAvailability_AnyType(its) ==
  IF \E t \in DOMAIN its.Data : Len(its.Data[t].RegionsWithCapacityAvailable) > 0
    THEN [val |-> its.Data[CHOOSE t \in DOMAIN its.Data :
                     Len(its.Data[t].RegionsWithCapacityAvailable) > 0
                  ].RegionsWithCapacityAvailable[1].Name,
          err |-> NoErr]
    ELSE [val |-> "", err |-> NoErr]
\* checkInstanceAvailability: the name of the first region with capacity
\* for the configured type, "" when there is none
checkInstanceAvailability(its) ==
  IF instanceTypeName \in DOMAIN its.Data
       /\ Len(its.Data[instanceTypeName].RegionsWithCapacityAvailable) > 0
    THEN [val |-> its.Data[instanceTypeName].RegionsWithCapacityAvailable[1].Name,
          err |-> NoErr]
    ELSE [val |-> "", err |-> NoErr]

\* the LaunchPayload launchInstance builds
LaunchPayload(region) ==
  [RegionName |-> region, InstanceTypeName |-> instanceTypeName,
   SSHKeyNames |-> <<sshKeyName>>, Quantity |-> 1]
NoPayload == [RegionName |-> "", InstanceTypeName |-> "", SSHKeyNames |-> <<>>, Quantity |-> 0]

\* launchInstance, given the provider's response: (interface{}, error)
launchInstance(resp) ==
  IF ~resp.transport THEN [val |-> Nil, err |-> ErrTransportPost]
  ELSE IF ~resp.parses THEN [val |-> Nil, err |-> ErrDecode]
  ELSE [val |-> resp.body, err |-> NoErr]

\* HealthStatus values
Fields == {"Status", "Result", "Error"}
HealthStarting == [Status |-> "starting", Result |-> Nil, Error |-> ""]
HealthRunning == [Status |-> "running", Result |-> Nil, Error |-> ""]
\* the error status without the error's message
HealthError_NoMessage(e) == [Status |-> "error", Result |-> Nil, Error |-> ""]
HealthError(e) == [Status |-> "error", Result |-> Nil, Error |-> e]
\* the launched status without the launch result
HealthLaunched_NoResult(r) == [Status |-> "instance launched", Result |-> Nil, Error |-> ""]
HealthLaunched(r) == [Status |-> "instance launched", Result |-> r, Error |-> ""]

\* json.NewEncoder(w).Encode(healthStatus): omitempty drops a nil result
\* and an empty error
EncodeHealth(h) ==
  [k \in {"status"} \cup (IF h.Result = Nil THEN {} ELSE {"result"})
                    \cup (IF h.Error = "" THEN {} ELSE {"error"}) |->
     IF k = "status" THEN h.Status ELSE IF k = "result" THEN h.Result ELSE h.Error]

\* ------------------------------------------------------------------------
\* State
\* ------------------------------------------------------------------------
VARIABLES
  withHealth,     \* TRUE: the variant serving /health; FALSE: the plain variant
  mainPc,         \* position of main()
  pc,             \* position of launchInstanceLoop()
  healthStatus,   \* the global healthStatus
  storeLeft,      \* fields of healthStatus the loop's assignment has yet to store
  resp,           \* response of the loop's latest provider call in this iteration
  instanceTypes,  \* loop local
  regionName,     \* loop local
  payload,        \* launchInstance's payload
  result,         \* loop local
  err,            \* loop local
  trace,          \* outbound calls, their returns and the sleeps of the loop so far
  hPc,            \* position of the healthHandler serving the current request
  loadLeft,       \* fields of healthStatus the handler has yet to load
  snap,           \* the handler's copy of healthStatus
  reqStale        \* the loop has taken a step since the current health request arrived

vars == <<withHealth, mainPc, pc, healthStatus, storeLeft, resp, instanceTypes,
          regionName, payload, result, err, trace, hPc, loadLeft, snap, reqStale>>

mainVars == <<withHealth, mainPc>>
localVars == <<resp, instanceTypes, regionName, payload, result, err>>
handlerVars == <<hPc, loadLeft, snap, reqStale>>
handlerLocals == <<hPc, loadLeft, snap>>

Event(e, a, s) == [ev |-> e, arg |-> a, secs |-> s]
Count(e) == Cardinality({i \in DOMAIN trace : trace[i].ev = e})
Last(s) == s[Len(s)]

Init ==
  /\ withHealth \in BOOLEAN
  /\ mainPc = "start"
  /\ pc = "idle"
  /\ healthStatus = HealthStarting
  /\ storeLeft = {}
  /\ resp = NoResponse
  /\ instanceTypes = ZeroInstanceTypes
  /\ regionName = ""
  /\ payload = NoPayload
  /\ result = Nil
  /\ err = NoErr
  /\ trace = <<>>
  /\ hPc = "idle"
  /\ loadLeft = {}
  /\ snap = HealthStarting
  /\ reqStale = FALSE

\* ------------------------------------------------------------------------
\* main()
\* ------------------------------------------------------------------------
\* healthStatus = HealthStatus{Status: "running"}; no other goroutine exists yet
MainSetRunning ==
  /\ withHealth /\ mainPc = "start"
  /\ mainPc' = "set_running"
  /\ healthStatus' = HealthRunning
  /\ UNCHANGED <<withHealth, pc, storeLeft, localVars, trace, handlerVars>>

\* go launchInstanceLoop()
MainGoLoop ==
  /\ withHealth /\ mainPc = "set_running"
  /\ mainPc' = "spawned"
  /\ pc' = "poll"
  /\ UNCHANGED <<withHealth, healthStatus, storeLeft, localVars, trace, handlerVars>>

\* http.ListenAndServe
MainListen ==
  /\ withHealth /\ mainPc = "spawned"
  /\ mainPc' = "listening"
  /\ UNCHANGED <<withHealth, pc, healthStatus, storeLeft, localVars, trace, handlerVars>>

\* the plain variant calls launchInstanceLoop() on the main goroutine
MainCallLoop ==
  /\ ~withHealth /\ mainPc = "start"
  /\ mainPc' = "looping"
  /\ pc' = "poll"
  /\ UNCHANGED <<withHealth, healthStatus, storeLeft, localVars, trace, handlerVars>>

\* ... and returns from main when the loop returns
MainReturn ==
  /\ ~withHealth /\ mainPc = "looping" /\ pc = "done"
  /\ mainPc' = "exited"
  /\ UNCHANGED <<withHealth, pc, healthStatus, storeLeft, localVars, trace, handlerVars>>

main == MainSetRunning \/ MainGoLoop \/ MainListen \/ MainCallLoop \/ MainReturn

\* ------------------------------------------------------------------------
\* launchInstanceLoop()
\* ------------------------------------------------------------------------
\* where an `if err != nil` branch of the loop goes first: the health
\* variant assigns healthStatus before it sleeps
\* an error branch that ends the loop instead of sleeping and retrying
OnError_Fatal == "done"
OnError == IF withHealth THEN "store_err" ELSE "sleep_err"
\* the loop without its break: a launch that returned no error falls
\* through to the sleep at the end of the loop body
OnLaunched_NoBreak == "sleep_poll"
\* the loop retrying the launch it has just made
OnLaunched_Again == "launch"
\* where the loop goes when launchInstance returned no error
OnLaunched == IF withHealth THEN "store_ok" ELSE "done"
\* the loop without its regionName != "" test
AfterFetch_NoRegionTest(fetchErr, avail) ==
  IF fetchErr # NoErr THEN OnError
  ELSE IF avail.err # NoErr THEN OnError
  ELSE "launch"
\* the branch taken after getInstanceTypes and checkInstanceAvailability
AfterFetch(fetchErr, avail) ==
  IF fetchErr # NoErr THEN OnError
  ELSE IF avail.err # NoErr THEN OnError
  ELSE IF avail.val # "" THEN "launch"
  ELSE "sleep_poll"
\* a loop that retries a failed launch at once, without a new fetch
AfterLaunch_RetryAtOnce(launchErr) ==
  IF launchErr # NoErr THEN "launch" ELSE OnLaunched
\* the branch taken after launchInstance
AfterLaunch(launchErr) ==
  IF launchErr # NoErr THEN OnError ELSE OnLaunched
\* the loop setting Status and Result of healthStatus after a launch
\* instead of assigning a whole new struct: Error keeps its old value
NewHealth_KeepError ==
  IF pc = "store_err" THEN HealthError(err)
  ELSE [HealthLaunched(result) EXCEPT !.Error = healthStatus.Error]
\* the value the loop is assigning to healthStatus
NewHealth ==
  IF pc = "store_err" THEN HealthError(err) ELSE HealthLaunched(result)
\* the loop going on after it has recorded the launch
AfterStore_KeepPolling == IF pc = "store_err" THEN "sleep_err" ELSE "sleep_poll"
\* the health variant sleeping checkInterval after it has recorded an error
AfterStore_PollInterval == IF pc = "store_err" THEN "sleep_poll" ELSE "done"
\* where the loop goes once the assignment to healthStatus is complete
AfterStore == IF pc = "store_err" THEN "sleep_err" ELSE "done"

\* a poller that sends its next GET request without waiting for the
\* previous one to return
IssueFetch_Overlapping ==
  /\ pc \in {"poll", "fetching"}
  /\ Count("fetch") < MaxFetch
  /\ pc' = "fetching"
  /\ trace' = Append(trace, Event("fetch", "", 0))
  /\ reqStale' = (hPc # "idle")
  /\ UNCHANGED <<mainVars, healthStatus, storeLeft, localVars, handlerLocals>>

\* the loop calls getInstanceTypes(), which sends the GET request
IssueFetch ==
  /\ pc = "poll"
  /\ Count("fetch") < MaxFetch
  /\ pc' = "fetching"
  /\ trace' = Append(trace, Event("fetch", "", 0))
  /\ reqStale' = (hPc # "idle")
  /\ UNCHANGED <<mainVars, healthStatus, storeLeft, localVars, handlerLocals>>

\* getInstanceTypes() returns; checkInstanceAvailability; branch
FetchReturn ==
  /\ pc = "fetching"
  /\ \E r \in FetchResponses :
       LET ret == getInstanceTypes(r)
           avail == checkInstanceAvailability(ret.val)
       IN /\ resp' = r
          /\ instanceTypes' = ret.val
          /\ err' = IF ret.err # NoErr THEN ret.err ELSE avail.err
          /\ regionName' = IF ret.err # NoErr THEN "" ELSE avail.val
          /\ trace' = Append(trace,
                        Event("fetch_ret", IF ret.err = NoErr THEN "ok" ELSE "err", 0))
          /\ pc' = AfterFetch(ret.err, avail)
  /\ storeLeft' = IF pc' = "store_err" THEN Fields ELSE {}
  /\ reqStale' = (hPc # "idle")
  /\ UNCHANGED <<mainVars, healthStatus, payload, result, handlerLocals>>

\* the loop calls launchInstance(regionName), which sends the POST request
IssueLaunch ==
  /\ pc = "launch"
  /\ pc' = "launching"
  /\ payload' = LaunchPayload(regionName)
  /\ trace' = Append(trace, Event("launch", regionName, 0))
  /\ reqStale' = (hPc # "idle")
  /\ UNCHANGED <<mainVars, healthStatus, storeLeft, resp, instanceTypes,
                 regionName, result, err, handlerLocals>>

\* launchInstance() returns; branch
LaunchReturn ==
  /\ pc = "launching"
  /\ \E r \in LaunchResponses :
       LET ret == launchInstance(r)
       IN /\ resp' = r
          /\ result' = ret.val
          /\ err' = ret.err
          /\ trace' = Append(trace,
                        Event("launch_ret", IF ret.err = NoErr THEN "ok" ELSE "err", 0))
          /\ pc' = AfterLaunch(ret.err)
  /\ storeLeft' = IF pc' \in {"store_err", "store_ok"} THEN Fields ELSE {}
  \* instanceTypes and regionName are not used after the call
  /\ instanceTypes' = ZeroInstanceTypes
  /\ regionName' = ""
  /\ reqStale' = (hPc # "idle")
  /\ UNCHANGED <<mainVars, healthStatus, payload, handlerLocals>>

\* healthStatus = HealthStatus{...}: a plain multi-word store to a global,
\* one field at a time in an order the compiler chooses
StoreField ==
  /\ pc \in {"store_err", "store_ok"}
  /\ \E f \in storeLeft :
       /\ healthStatus' = [healthStatus EXCEPT ![f] = NewHealth[f]]
       /\ storeLeft' = storeLeft \ {f}
  /\ pc' = IF storeLeft' = {} THEN AfterStore ELSE pc
  /\ reqStale' = (hPc # "idle")
  /\ UNCHANGED <<mainVars, localVars, trace, handlerLocals>>

\* the error branch without its continue: after the error sleep the loop
\* falls through to the sleep at the end of the loop body
SleepError_NoContinue ==
  /\ pc = "sleep_err"
  /\ pc' = "sleep_poll"
  /\ trace' = Append(trace, Event("sleep", "errorWait", errorWait))
  /\ reqStale' = (hPc # "idle")
  /\ UNCHANGED <<mainVars, healthStatus, storeLeft, localVars, handlerLocals>>

\* time.Sleep(errorWait); continue
SleepError ==
  /\ pc = "sleep_err"
  /\ pc' = "poll"
  /\ trace' = Append(trace, Event("sleep", "errorWait", errorWait))
  /\ resp' = NoResponse
  /\ instanceTypes' = ZeroInstanceTypes
  /\ regionName' = ""
  /\ payload' = NoPayload
  /\ result' = Nil
  /\ err' = NoErr
  /\ reqStale' = (hPc # "idle")
  /\ UNCHANGED <<mainVars, healthStatus, storeLeft, handlerLocals>>

\* a loop that reports "running" again when a poll found no capacity
SleepPoll_RecordsRunning ==
  /\ pc = "sleep_poll"
  /\ pc' = "poll"
  /\ trace' = Append(trace, Event("sleep", "checkInterval", checkInterval))
  /\ healthStatus' = IF withHealth THEN HealthRunning ELSE healthStatus
  /\ resp' = NoResponse
  /\ instanceTypes' = ZeroInstanceTypes
  /\ regionName' = ""
  /\ payload' = NoPayload
  /\ result' = Nil
  /\ err' = NoErr
  /\ reqStale' = (hPc # "idle")
  /\ UNCHANGED <<mainVars, storeLeft, handlerLocals>>

\* time.Sleep(checkInterval) at the end of the loop body
SleepPoll ==
  /\ pc = "sleep_poll"
  /\ pc' = "poll"
  /\ trace' = Append(trace, Event("sleep", "checkInterval", checkInterval))
  /\ resp' = NoResponse
  /\ instanceTypes' = ZeroInstanceTypes
  /\ regionName' = ""
  /\ payload' = NoPayload
  /\ result' = Nil
  /\ err' = NoErr
  /\ reqStale' = (hPc # "idle")
  /\ UNCHANGED <<mainVars, healthStatus, storeLeft, handlerLocals>>

launchInstanceLoop ==
  \/ IssueFetch \/ FetchReturn \/ IssueLaunch \/ LaunchReturn
  \/ StoreField \/ SleepError \/ SleepPoll

\* ------------------------------------------------------------------------
\* launchInstanceLoop() of the plain variant, as a function: the position
\* and the trace that follow position p and trace t, given the response r
\* of the iteration's latest provider call
\* ------------------------------------------------------------------------
PlainLoop(p, t, r) ==
  CASE p = "idle" -> <<"poll", t>>
    [] p = "poll" -> <<"fetching", Append(t, Event("fetch", "", 0))>>
    [] p = "fetching" ->
         IF getInstanceTypes(r).err # NoErr
           THEN <<"sleep_err", Append(t, Event("fetch_ret", "err", 0))>>
         ELSE IF checkInstanceAvailability(getInstanceTypes(r).val).val # ""
           THEN <<"launch", Append(t, Event("fetch_ret", "ok", 0))>>
         ELSE <<"sleep_poll", Append(t, Event("fetch_ret", "ok", 0))>>
    [] p = "launch" ->
         <<"launching",
           Append(t, Event("launch", checkInstanceAvailability(getInstanceTypes(r).val).val, 0))>>
    [] p = "launching" ->
         IF launchInstance(r).err # NoErr
           THEN <<"sleep_err", Append(t, Event("launch_ret", "err", 0))>>
           ELSE <<"done", Append(t, Event("launch_ret", "ok", 0))>>
    [] p = "sleep_err" -> <<"poll", Append(t, Event("sleep", "errorWait", errorWait))>>
    [] p = "sleep_poll" -> <<"poll", Append(t, Event("sleep", "checkInterval", checkInterval))>>
    [] OTHER -> <<p, t>>

\* ------------------------------------------------------------------------
\* healthHandler()
\* ------------------------------------------------------------------------
\* a GET /health request arrives; the server runs healthHandler
HealthRequest ==
  /\ withHealth /\ mainPc = "listening" /\ hPc = "idle"
  /\ hPc' = "loading"
  /\ loadLeft' = Fields
  /\ reqStale' = FALSE
  /\ UNCHANGED <<mainVars, pc, healthStatus, storeLeft, localVars, trace, snap>>

\* Encode(healthStatus) copies the global, one field at a time
LoadField ==
  /\ hPc = "loading"
  /\ \E f \in loadLeft :
       /\ snap' = [snap EXCEPT ![f] = healthStatus[f]]
       /\ loadLeft' = loadLeft \ {f}
  /\ hPc' = IF loadLeft' = {} THEN "responded" ELSE hPc
  /\ UNCHANGED <<mainVars, pc, healthStatus, storeLeft, localVars, trace, reqStale>>

\* the response, EncodeHealth(snap), has been written; the handler returns
HandlerReturn ==
  /\ hPc = "responded"
  /\ hPc' = "idle"
  /\ snap' = HealthStarting
  /\ reqStale' = FALSE
  /\ UNCHANGED <<mainVars, pc, healthStatus, storeLeft, localVars, trace, loadLeft>>

healthHandler == HealthRequest \/ LoadField \/ HandlerReturn

Next == main \/ launchInstanceLoop \/ healthHandler

Spec == Init /\ [][Next]_vars

\* The Go scheduler runs every runnable goroutine, a sleep ends and a
\* provider call returns (with a response or a transport error): main and
\* the loop keep taking the step they are at.  Health requests need not come.
FairSpec == Spec /\ WF_vars(main) /\ WF_vars(launchInstanceLoop)

\* the response body the handler has produced
Response == EncodeHealth(snap)

TypeOK ==
  /\ withHealth \in BOOLEAN
  /\ mainPc \in {"start", "set_running", "spawned", "listening", "looping", "exited"}
  /\ pc \in {"idle", "poll", "fetching", "launch", "launching", "store_err",
             "store_ok", "sleep_err", "sleep_poll", "done"}
  /\ storeLeft \subseteq Fields
  /\ loadLeft \subseteq Fields
  /\ hPc \in {"idle", "loading", "responded"}
  /\ Len(trace) <= 5 * MaxFetch

\* ------------------------------------------------------------------------
\* Properties
\* ------------------------------------------------------------------------
FetchOk == Event("fetch_ret", "ok", 0)
FetchErr == Event("fetch_ret", "err", 0)
LaunchOk == Event("launch_ret", "ok", 0)
LaunchErr == Event("launch_ret", "err", 0)
SleptError == Event("sleep", "errorWait", errorWait)
SleptPoll == Event("sleep", "checkInterval", checkInterval)
Occurrences(e) == {i \in DOMAIN trace : trace[i] = e}
Launches == {i \in DOMAIN trace : trace[i].ev = "launch"}

\* C1: at most one launchInstance call returns without error, and no launch
\* call is made after it: it is the last launch call of the process.
C1_OneSuccessfulLaunch ==
  /\ Cardinality(Occurrences(LaunchOk)) <= 1
  /\ \A i \in Occurrences(LaunchOk) : \A j \in Launches : j < i
\* a launch that returned no error after an earlier launch had failed
C1_Witness ==
  /\ pc = "done"
  /\ Occurrences(LaunchOk) # {}
  /\ Occurrences(LaunchErr) # {}

\* C2 as stated: no more than one launch call is ever issued, whether or
\* not it succeeds.
C2_AtMostOneLaunchCall == Cardinality(Launches) <= 1
\* C2, amended: a launch call that fails is followed by another launch call
\* when capacity is seen again, so the launch calls issued are at most one
\* more than the launch calls that failed.
C2_LaunchCallsBoundedByFailures ==
  Cardinality(Launches) <= Cardinality(Occurrences(LaunchErr)) + 1
\* capacity seen in two poll cycles, the first launch failed, the second
\* launch call is in flight
C2_Witness ==
  /\ pc = "launching"
  /\ Cardinality(Launches) = 2
  /\ Cardinality(Occurrences(LaunchErr)) = 1

\* C3: once a launch call has returned without error the loop makes no
\* fetch call, no launch call and no sleep any more and, once it has ended,
\* stays ended with healthStatus at "instance launched"; a health request
\* arriving then is answered with status "instance launched".
C3_StateAfterLaunch ==
  /\ pc = "done" => Occurrences(LaunchOk) # {}
  /\ Occurrences(LaunchOk) # {} => pc \in {"store_ok", "done"}
  /\ (pc = "done" /\ withHealth) => healthStatus.Status = "instance launched"
  /\ (pc = "done" /\ hPc = "responded" /\ ~reqStale) =>
        Response.status = "instance launched"
C3_StepAfterLaunch ==
  /\ Occurrences(LaunchOk) # {} => trace' = trace
  /\ pc = "done" => (pc' = "done" /\ healthStatus' = healthStatus)
C3_TerminatedForGood == [](C3_StateAfterLaunch) /\ [][C3_StepAfterLaunch]_vars
\* a health request that arrived after the loop had ended has been answered
C3_Witness ==
  /\ pc = "done" /\ hPc = "responded" /\ ~reqStale
  /\ Response.status = "instance launched"

\* C4: a fetch or launch that returned an error is followed by exactly one
\* sleep, of errorWait seconds, and then by a fetch; the loop has not ended.
C4_ErrorThenSleepThenFetch ==
  \A i \in Occurrences(FetchErr) \cup Occurrences(LaunchErr) :
    /\ i = Len(trace) => pc \in {"store_err", "sleep_err"}
    /\ i + 1 <= Len(trace) => trace[i + 1] = SleptError
    /\ i + 1 = Len(trace) => pc \in {"poll", "fetching"}
    /\ i + 2 <= Len(trace) => trace[i + 2].ev = "fetch"
\* a failed fetch followed by its sleep and the next fetch, and then a
\* failed launch followed by its sleep
C4_Witness ==
  /\ \E i \in Occurrences(FetchErr) : i + 2 <= Len(trace)
  /\ \E i \in Occurrences(LaunchErr) : i + 1 <= Len(trace)
  /\ pc = "poll"

\* the loop holds the catalog of this iteration's successful fetch
HoldsCatalog == pc \in {"launch", "launching", "sleep_poll"}
\* the regions the held catalog lists for the configured instance type
ConfiguredRegions ==
  IF instanceTypeName \in DOMAIN instanceTypes.Data
    THEN instanceTypes.Data[instanceTypeName].RegionsWithCapacityAvailable
    ELSE <<>>

\* C5: whenever the fetched catalog lists at least one region for the
\* configured instance type, the loop goes on to launch in that iteration,
\* and the launch request names the first listed region.
C5_FirstRegionLaunched ==
  (HoldsCatalog /\ Len(ConfiguredRegions) > 0) =>
     /\ pc \in {"launch", "launching"}
     /\ regionName = ConfiguredRegions[1].Name
     /\ pc = "launching" =>
          /\ payload.RegionName = ConfiguredRegions[1].Name
          /\ Last(trace) = Event("launch", ConfiguredRegions[1].Name, 0)

\* C6: whenever the fetched catalog has no entry for the configured
\* instance type, or an entry with no regions, the chosen region is empty,
\* no launch call is made in that iteration, and the loop sleeps
\* checkInterval seconds and then fetches again.
C6_NoCapacityNoLaunch ==
  /\ (HoldsCatalog /\ Len(ConfiguredRegions) = 0) =>
        /\ regionName = ""
        /\ pc = "sleep_poll"
        /\ Last(trace) = FetchOk
  /\ \A i \in Occurrences(FetchOk) :
        (i + 1 <= Len(trace) /\ trace[i + 1].ev # "launch") =>
           /\ trace[i + 1] = SleptPoll
           /\ i + 1 = Len(trace) => pc \in {"poll", "fetching"}
           /\ i + 2 <= Len(trace) => trace[i + 2].ev = "fetch"
\* a second poll cycle without the configured type in the catalog, while
\* another type has capacity
C6_Witness ==
  /\ pc = "sleep_poll"
  /\ instanceTypeName \notin DOMAIN instanceTypes.Data
  /\ otherTypeName \in DOMAIN instanceTypes.Data
  /\ \E i \in Occurrences(SleptPoll) : i + 2 <= Len(trace)

\* the provider carried the latest request out: the request reached it and
\* it answered with a success status and a JSON body
CarriedOut == resp.transport /\ resp.parses /\ resp.status = StatusOK

\* C7: the loop ends, and healthStatus says "instance launched", only after
\* a launch the provider carried out; a transport failure, an undecodable
\* body or an error HTTP status on the launch never ends the loop.
C7_EndsOnlyAfterRealLaunch ==
  /\ pc \in {"store_ok", "done"} => CarriedOut
  /\ healthStatus.Status = "instance launched" => CarriedOut

\* the latest provider call of this iteration was a fetch
FetchAnswered == Len(trace) > 0 /\ Last(trace).ev = "fetch_ret"

\* C8: a fetch answered with an error HTTP status is a failed fetch: the
\* loop records the error and sleeps errorWait seconds.
C8_ErrorStatusIsFetchFailure ==
  (withHealth /\ FetchAnswered /\ resp.transport /\ resp.status # StatusOK) =>
     /\ pc \in {"store_err", "sleep_err"}
     /\ err # NoErr
     /\ pc = "sleep_err" => healthStatus = HealthError(err)

\* C9: a health request answered while the loop, after a successful fetch
\* that found no capacity, sleeps before its next poll, and that arrived
\* during that sleep, does not report status "error".
C9_HealthFollowsLoop ==
  (hPc = "responded" /\ ~reqStale /\ pc = "sleep_poll") =>
     Response.status # "error"

\* the message of the failure the loop is handling
FailureMessage ==
  IF FetchAnswered THEN getInstanceTypes(resp).err ELSE launchInstance(resp).err

\* C10: while the loop sleeps after a failed fetch or launch, healthStatus
\* is {error, that failure's message, no result}, and a health request
\* arriving then is answered with exactly that status and message.
C10_ErrorRecordedBeforeSleep ==
  (withHealth /\ pc = "sleep_err") =>
     /\ Last(trace) \in {FetchErr, LaunchErr}
     /\ FailureMessage # NoErr
     /\ healthStatus = [Status |-> "error", Result |-> Nil, Error |-> FailureMessage]
     /\ (hPc = "responded" /\ ~reqStale) =>
           Response = [status |-> "error", error |-> FailureMessage]
\* a health request answered during the sleep that follows a launch whose
\* response could not be decoded, after an earlier fetch failure
C10_Witness ==
  /\ withHealth /\ pc = "sleep_err"
  /\ Last(trace) = LaunchErr /\ resp.transport
  /\ Occurrences(FetchErr) # {}
  /\ hPc = "responded" /\ ~reqStale

\* C11: once the loop has ended after a launch whose response body decoded
\* to P, healthStatus is {"instance launched", result P, no error}, whatever
\* it was before, and a health request arriving then is answered with
\* status "instance launched", result P (left out when P is null) and no
\* error.
C11_LaunchResultPassedThrough ==
  (withHealth /\ pc = "done") =>
     /\ Last(trace) = LaunchOk
     /\ healthStatus = [Status |-> "instance launched", Result |-> resp.body, Error |-> ""]
     /\ (hPc = "responded" /\ ~reqStale) =>
           /\ Response.status = "instance launched"
           /\ "error" \notin DOMAIN Response
           /\ IF resp.body = Nil THEN "result" \notin DOMAIN Response
                                 ELSE Response.result = resp.body
\* the loop ended with a launch result after an earlier error had been
\* recorded, and a health request that arrived afterwards has been answered
C11_Witness ==
  /\ withHealth /\ pc = "done"
  /\ Occurrences(FetchErr) \cup Occurrences(LaunchErr) # {}
  /\ resp.body = LaunchOkBody
  /\ hPc = "responded" /\ ~reqStale
  /\ Response.result = LaunchOkBody

NoLaunchOk == Occurrences(LaunchOk) = {}
\* the model explores no further fetch call
FetchesExhausted == pc = "poll" /\ Count("fetch") = MaxFetch
\* a step in which a fetch returns a catalog with capacity for the
\* configured type, or a launch returns without error, if it is the return
\* of a fetch or a launch at all
GoodReturn ==
  /\ (pc = "fetching" /\ pc' # pc) => pc' = "launch"
  /\ (pc = "launching" /\ pc' # pc) => pc' \in {"store_ok", "done"}

\* C12: as long as no launch has returned without error the loop issues
\* another fetch, whatever errors it meets (up to the MaxFetch fetches
\* explored); if from some point on every fetch finds capacity and every
\* launch returns without error, the loop ends; and the loop and the process
\* end only after a launch that returned without error.
C12_KeepsFetching ==
  \A n \in 0..(MaxFetch - 1) :
    (Count("fetch") = n /\ NoLaunchOk) ~> (Count("fetch") > n \/ ~NoLaunchOk)
C12_EndsWhenLaunchSucceeds ==
  <>[][GoodReturn]_vars => <>(pc = "done" \/ (FetchesExhausted /\ NoLaunchOk))
C12_OnlyLaunchStops ==
  [](pc = "done" \/ mainPc = "exited" => Last(trace) = LaunchOk)
Calls == {i \in DOMAIN trace : trace[i].ev \in {"fetch", "launch"}}
Returns == {i \in DOMAIN trace : trace[i].ev \in {"fetch_ret", "launch_ret"}}
\* provider requests sent and not yet returned
InFlight == Cardinality(Calls) - Cardinality(Returns)

\* C13: at most one provider request is in flight: each fetch or launch
\* call is followed by its own return before the loop does anything else,
\* and a step of the health handler sends nothing and leaves the loop alone.
C13_OneInFlight ==
  /\ InFlight \in {0, 1}
  /\ InFlight = 1 <=> pc \in {"fetching", "launching"}
  /\ \A i \in Calls :
       i < Len(trace) =>
         trace[i + 1].ev = (IF trace[i].ev = "fetch" THEN "fetch_ret" ELSE "launch_ret")
C13_HandlerSendsNothing ==
  (handlerLocals' # handlerLocals) => (trace' = trace /\ pc' = pc /\ resp' = resp)
C13_NoOverlappingRequests == [](C13_OneInFlight) /\ [][C13_HandlerSendsNothing]_vars
\* a health request served from arrival to answer while the loop's second
\* launch call is in flight
C13_Witness ==
  /\ pc = "launching" /\ InFlight = 1
  /\ Cardinality(Calls) = 4
  /\ hPc = "responded" /\ ~reqStale

\* the HealthStatus values the program assigns as a whole
WholeValues ==
  {HealthStarting, HealthRunning}
    \cup {HealthError(e) : e \in {ErrTransportGet, ErrTransportPost, ErrDecode}}
    \cup {HealthLaunched(r) : r \in {LaunchOkBody, LaunchErrBody, Nil}}
\* a combination of fields that was never assigned as a whole
Torn(h) == h \notin WholeValues
StoreInProgress == pc \in {"store_err", "store_ok"}

\* C14: healthStatus is stored and loaded field by field with nothing to
\* keep a load from falling between two stores, so a health request can be
\* answered with a torn snapshot (the witness: status "instance launched"
\* with the error message of the error recorded before); healthStatus itself
\* is torn only while an assignment is in progress, and an answer is torn
\* only if the loop ran, or was in the middle of an assignment, while the
\* request was served.
C14_TornOnlyUnderConcurrentStore ==
  /\ Torn(healthStatus) => StoreInProgress
  /\ (hPc = "responded" /\ Torn(snap)) => (reqStale \/ StoreInProgress)
\* the answer "instance launched" carrying the previous error's message
C14_Witness ==
  /\ hPc = "responded"
  /\ snap.Status = "instance launched"
  /\ snap.Error # ""
  /\ Torn(snap)

\* C15: every launch call comes right after a fetch call and its
\* successful return, with nothing in between; while the call is in flight
\* its region is the first region the catalog of that fetch lists for the
\* configured type; so a launch after a failed launch follows a new fetch
\* and takes its region from the new catalog.
C15_LaunchFollowsItsFetch ==
  /\ \A i \in Launches :
       /\ i >= 3
       /\ trace[i - 1] = FetchOk
       /\ trace[i - 2].ev = "fetch"
  /\ pc = "launching" =>
       /\ Len(ConfiguredRegions) > 0
       /\ Last(trace) = Event("launch", ConfiguredRegions[1].Name, 0)
       /\ payload.RegionName = getInstanceTypes(resp).val.Data[instanceTypeName].RegionsWithCapacityAvailable[1].Name
\* a second launch call, in flight, for another region than the launch
\* call that failed before it
C15_Witness ==
  /\ pc = "launching"
  /\ \E i \in Launches : trace[i].arg # payload.RegionName /\ trace[i + 1] = LaunchErr

\* C16: every launch request carries the configured instance type, the
\* configured SSH key as its only key, quantity 1 and a region name that
\* is not empty, the same configuration for every request.
C16_LaunchRequestShape ==
  /\ \A i \in Launches : trace[i].arg # ""
  /\ pc = "launching" => payload # NoPayload
  /\ payload # NoPayload =>
       /\ payload.InstanceTypeName = instanceTypeName
       /\ payload.SSHKeyNames = <<sshKeyName>>
       /\ Len(payload.SSHKeyNames) = 1
       /\ payload.Quantity = 1
       /\ payload.RegionName # ""
       /\ \E i \in Launches : trace[i].arg = payload.RegionName
\* the second launch request of the process is in flight
C16_Witness ==
  /\ pc = "launching"
  /\ Cardinality(Launches) = 2
  /\ payload = [RegionName |-> "us-west-2", InstanceTypeName |-> "gpu_1x_a6000",
                SSHKeyNames |-> <<"my-ssh-key">>, Quantity |-> 1]

\* C17: while no assignment to healthStatus is in progress its status is
\* one of "starting", "running", "error", "instance launched"; it has an
\* error message only under status "error" and a result only under status
\* "instance launched", so never both.
C17_HealthStatusShape ==
  ~StoreInProgress =>
     /\ healthStatus.Status \in {"starting", "running", "error", "instance launched"}
     /\ healthStatus.Error # "" => healthStatus.Status = "error"
     /\ healthStatus.Result # Nil => healthStatus.Status = "instance launched"
     /\ ~(healthStatus.Error # "" /\ healthStatus.Result # Nil)
\* the loop ended with a result in healthStatus where an error message had
\* been before
C17_Witness ==
  /\ withHealth /\ pc = "done"
  /\ Occurrences(FetchErr) # {}
  /\ healthStatus.Result # Nil /\ healthStatus.Error = ""

\* the loop's position with the health variant's assignments to
\* healthStatus left out
LoopPosition ==
  IF pc = "store_err" THEN "sleep_err" ELSE IF pc = "store_ok" THEN "done" ELSE pc

\* C18: in both variants every step of the loop other than a store to
\* healthStatus takes the position and the trace of fetch calls, launch
\* calls (with their regions), sleeps (with their intervals) and the end of
\* the loop to what the plain variant's loop makes of them and of the
\* provider's response, so the same responses give the same calls, sleeps
\* and end; the plain variant never touches healthStatus nor serves a
\* request.
C18_StepOfPlainLoop ==
  (LoopPosition' # LoopPosition \/ trace' # trace) =>
     <<LoopPosition', trace'>> = PlainLoop(LoopPosition, trace, resp')
C18_PlainHasNoHealth ==
  ~withHealth => (healthStatus = HealthStarting /\ hPc = "idle" /\ ~StoreInProgress)
C18_SameControlLoop == [](C18_PlainHasNoHealth) /\ [][C18_StepOfPlainLoop]_vars
\* the health variant sleeping after its second error, both recorded
C18_Witness ==
  /\ withHealth /\ pc = "sleep_err"
  /\ Cardinality(Occurrences(SleptError)) = 1
  /\ Last(trace) = LaunchErr
  /\ healthStatus.Status = "error"

\* the order of the statuses
Rank(status) ==
  CASE status = "starting" -> 0
    [] status = "running" -> 1
    [] status = "error" -> 2
    [] status = "instance launched" -> 3
ErrorSeen == Occurrences(FetchErr) \cup Occurrences(LaunchErr) # {}

\* C19: the status of healthStatus never moves back along starting,
\* running, error, instance launched: it is "running" before the loop
\* starts and before the server listens, and only main, before that, writes
\* "running"; after an error it is still "error" while the loop sleeps
\* after a later successful poll without capacity, and it leaves "error"
\* only for "instance launched", which is never replaced.
C19_StatusWhereLoopIs ==
  withHealth =>
     /\ (pc # "idle" \/ mainPc = "listening") => healthStatus.Status # "starting"
     /\ (ErrorSeen /\ pc \in {"sleep_err", "poll", "fetching", "launch", "launching", "sleep_poll"}) =>
           healthStatus.Status = "error"
     /\ pc = "done" => healthStatus.Status = "instance launched"
C19_StatusStep ==
  /\ Rank(healthStatus'.Status) >= Rank(healthStatus.Status)
  /\ (healthStatus'.Status = "running" /\ healthStatus.Status # "running") =>
        (pc = "idle" /\ mainPc = "start")
  /\ (healthStatus.Status = "error" /\ healthStatus'.Status # "error") =>
        (healthStatus'.Status = "instance launched" /\ pc = "store_ok")
  /\ healthStatus.Status = "instance launched" => healthStatus'.Status = "instance launched"
C19_StatusMovesForward == [](C19_StatusWhereLoopIs) /\ [][C19_StatusStep]_vars
\* a health request answered "error" while the loop, after a failed fetch
\* and then a successful fetch without capacity, sleeps checkInterval
C19_Witness ==
  /\ pc = "sleep_poll" /\ Occurrences(FetchErr) # {} /\ Last(trace) = FetchOk
  /\ healthStatus.Status = "error"
  /\ hPc = "responded" /\ ~reqStale /\ Response.status = "error"

====
